---------------------------- MODULE Spec2Model ----------------------------
(***************************************************************************)
(* TaskManager: the credential store and the task store of database.py     *)
(* (class TaskDB), the login / registration handlers of auth.py and the    *)
(* add-task flow of app.py (parse_task + save_task).                       *)
(*                                                                         *)
(* Text that the program compares, lower-cases or formats (due_date,       *)
(* completion_date) is a sequence of one-character strings, so that        *)
(* str.lower(), strftime and SQLite's BINARY collation are computed        *)
(* character by character.  Python's None / SQL NULL in an Optional value  *)
(* is the empty set and a present value x is {x}.                          *)
(***************************************************************************)
EXTENDS Integers, Sequences, FiniteSets, TLC

VARIABLES
    users,      \* rows of table users: [id, email, password]
    tasks,      \* rows of table tasks
    task_seq,   \* sqlite_sequence entry of tasks (AUTOINCREMENT)
    session,    \* st.session_state: [authenticated, user]
    now,        \* the wall clock, in minutes since 00:00 of Epoch
    ret         \* the last call: [op, args, val]

vars == <<users, tasks, task_seq, session, now, ret>>

----------------------------------------------------------------------------
(* Bounds of the model *)

\* number of rows ever inserted into tasks
MaxTasks == 2
\* number of times the clock advances
MaxTicks == 1
\* number of tasks the add-task flow creates
MaxAdds == 1

Emails == {"ann@x.org", "bob@x.org"}
Passwords == {"Passw0rd", "Secr3tKey"}
\* user ids the task-store operations are called with
UserIds == {1, 2}
TaskIds == 1..MaxTasks
Statuses == {"active", "completed"}

\* SQL NULL in a TEXT column whose other values are strings
NULL == "<NULL>"
\* Python None / no row, as an Optional value
None == {}

----------------------------------------------------------------------------
(* Characters, str.lower() and BINARY collation *)

\* ord() of the characters that occur in the modelled text
Ord ==
    (" " :> 32) @@ ("-" :> 45) @@ (":" :> 58) @@
    ("0" :> 48) @@ ("1" :> 49) @@ ("2" :> 50) @@ ("3" :> 51) @@ ("4" :> 52) @@
    ("5" :> 53) @@ ("6" :> 54) @@ ("7" :> 55) @@ ("8" :> 56) @@ ("9" :> 57) @@
    ("M" :> 77) @@ ("O" :> 79) @@ ("R" :> 82) @@ ("T" :> 84) @@ ("W" :> 87) @@
    ("m" :> 109) @@ ("o" :> 111) @@ ("r" :> 114) @@ ("t" :> 116) @@ ("w" :> 119)

Chr(n) == CHOOSE c \in DOMAIN Ord : Ord[c] = n

\* str.lower(): A-Z become a-z, everything else is kept
lower(s) ==
    [i \in 1..Len(s) |->
        IF Ord[s[i]] >= 65 /\ Ord[s[i]] <= 90 THEN Chr(Ord[s[i]] + 32) ELSE s[i]]

\* memcmp order of two texts (SQLite's default BINARY collation): a < b
RECURSIVE TextLess(_, _)
TextLess(a, b) ==
    IF b = <<>> THEN FALSE
    ELSE IF a = <<>> THEN TRUE
    ELSE IF Ord[Head(a)] # Ord[Head(b)] THEN Ord[Head(a)] < Ord[Head(b)]
    ELSE TextLess(Tail(a), Tail(b))

----------------------------------------------------------------------------
(* The clock and strftime *)

MinutesPerDay == 24 * 60
\* the calendar day on which the clock starts
Epoch == [d |-> 30, m |-> 12, y |-> 2024]

IsLeap(y) == (y % 4 = 0 /\ y % 100 # 0) \/ y % 400 = 0

DaysInMonth(m, y) ==
    IF m = 2 THEN (IF IsLeap(y) THEN 29 ELSE 28)
    ELSE IF m \in {4, 6, 9, 11} THEN 30 ELSE 31

\* date + timedelta(days=1)
NextDay(date) ==
    IF date.d < DaysInMonth(date.m, date.y) THEN [date EXCEPT !.d = date.d + 1]
    ELSE IF date.m < 12 THEN [d |-> 1, m |-> date.m + 1, y |-> date.y]
    ELSE [d |-> 1, m |-> 1, y |-> date.y + 1]

RECURSIVE AddDays(_, _)
AddDays(date, n) == IF n = 0 THEN date ELSE AddDays(NextDay(date), n - 1)

\* datetime.now() at clock value t: calendar date, hour and minute
DateTime(t) ==
    [date |-> AddDays(Epoch, t \div MinutesPerDay),
     hour |-> (t % MinutesPerDay) \div 60,
     minute |-> t % 60]

Digit(n) == Chr(48 + n)
Pad2(n) == <<Digit((n \div 10) % 10), Digit(n % 10)>>
Pad4(n) == <<Digit((n \div 1000) % 10), Digit((n \div 100) % 10)>> \o Pad2(n % 100)

\* strftime('%d-%m-%Y')
strftime_date(dt) ==
    Pad2(dt.date.d) \o <<"-">> \o Pad2(dt.date.m) \o <<"-">> \o Pad4(dt.date.y)

\* strftime('%d-%m-%Y %H:%M')
strftime_datetime(dt) ==
    strftime_date(dt) \o <<" ">> \o Pad2(dt.hour) \o <<":">> \o Pad2(dt.minute)

\* what the clock advances by between two operations: a day and a minute, so
\* that both the date and the time of day change
ClockStep == MinutesPerDay + 1


----------------------------------------------------------------------------
(* Values *)

\* a Python value that came out of json.loads: str, or None for JSON null
PyStr(v) == [t |-> "str", v |-> v]
PyNone(empty) == [t |-> "null", v |-> empty]

\* SQL NULL in a column whose other values are character sequences
NullText == <<NULL>>

\* the value sqlite3 binds for a Python value: None becomes NULL
SqlBind(x, null) == IF x.t = "null" THEN null ELSE x.v

\* the Python value sqlite3 fetches for a column value: NULL becomes None
SqlFetch(x, null, empty) == IF x = null THEN PyNone(empty) ELSE PyStr(x)

\* ORDER BY on a TEXT column, ascending: NULL first, then BINARY collation
SqlLess(a, b) ==
    IF a = NullText THEN b # NullText
    ELSE IF b = NullText THEN FALSE
    ELSE TextLess(a, b)

----------------------------------------------------------------------------
(* Credential store: table users *)

\* hashlib.sha256(password.encode()).hexdigest()
hash_password(password) ==
    CASE password = "Passw0rd" ->
           "ab38eadaeb746599f2c1ee90f8267f31f467347462764a24d71ac1843ee77fe3"
      [] password = "Secr3tKey" ->
           "142c2488ba8a752ca4d9c6e99a72f4a83612a3d6b95aaaed103a78b5f751c8b6"

\* the rowid SQLite gives a new users row (INTEGER PRIMARY KEY): max(id) + 1
NextUserId ==
    IF users = {} THEN 1
    ELSE 1 + (CHOOSE n \in {r.id : r \in users} : \A r \in users : r.id <= n)

\* register_user as INSERT OR REPLACE: a duplicate email overwrites the row
register_user_replace(email, password) ==
    [users |-> {r \in users : r.email # email}
               \cup {[id |-> NextUserId, email |-> email,
                      password |-> hash_password(password)]},
     val |-> TRUE]

\* TaskDB.register_user: the INSERT fails on the UNIQUE email (IntegrityError)
register_user(email, password) ==
    IF \E r \in users : r.email = email
    THEN [users |-> users, val |-> FALSE]
    ELSE [users |-> users \cup {[id |-> NextUserId, email |-> email,
                                 password |-> hash_password(password)]},
          val |-> TRUE]

\* verify_user with AND password=? left out of the WHERE clause
verify_user_email_only(email, password) ==
    LET rows == {r \in users : r.email = email}
    IN  IF rows = {} THEN None
        ELSE LET user == CHOOSE r \in rows : \A q \in rows : r.id <= q.id
             IN  {[id |-> user.id, email |-> user.email]}

\* TaskDB.verify_user: SELECT id, email ... WHERE email=? AND password=?; fetchone()
verify_user(email, password) ==
    LET rows == {r \in users :
                    r.email = email /\ r.password = hash_password(password)}
    IN  IF rows = {} THEN None
        ELSE LET user == CHOOSE r \in rows : \A q \in rows : r.id <= q.id
             IN  {[id |-> user.id, email |-> user.email]}

----------------------------------------------------------------------------
(* Task store: table tasks *)

\* save_task with due_date left out of the INSERT
save_task_without_due_date(user_id, task_data) ==
    IF \/ {"task", "customer", "due_date", "priority"} \ DOMAIN task_data # {}
       \/ task_data["task"].t = "null"
    THEN [tasks |-> tasks, task_seq |-> task_seq, val |-> FALSE]
    ELSE [tasks |-> tasks \cup
                    {[id |-> task_seq + 1,
                      user_id |-> user_id,
                      task |-> SqlBind(task_data["task"], NULL),
                      customer |-> SqlBind(task_data["customer"], NULL),
                      due_date |-> NullText,
                      priority |-> SqlBind(task_data["priority"], NULL),
                      status |-> "active",
                      completion_date |-> NullText]},
          task_seq |-> task_seq + 1,
          val |-> TRUE]

\* TaskDB.save_task: INSERT INTO tasks (user_id, task, customer, due_date, priority);
\* a missing key (KeyError) or a NULL task (NOT NULL) is caught and gives False
save_task(user_id, task_data) ==
    IF \/ {"task", "customer", "due_date", "priority"} \ DOMAIN task_data # {}
       \/ task_data["task"].t = "null"
    THEN [tasks |-> tasks, task_seq |-> task_seq, val |-> FALSE]
    ELSE [tasks |-> tasks \cup
                    {[id |-> task_seq + 1,
                      user_id |-> user_id,
                      task |-> SqlBind(task_data["task"], NULL),
                      customer |-> SqlBind(task_data["customer"], NULL),
                      due_date |-> SqlBind(task_data["due_date"], NullText),
                      priority |-> SqlBind(task_data["priority"], NULL),
                      status |-> "active",
                      completion_date |-> NullText]},
          task_seq |-> task_seq + 1,
          val |-> TRUE]

\* the rows get_tasks selects: WHERE user_id=? AND status=?
SelectTasks(user_id, status) ==
    {t \in tasks : t.user_id = user_id /\ t.status = status}

\* one selected row as the dict get_tasks returns
TaskDict(t) ==
    [id |-> t.id, task |-> t.task, customer |-> t.customer,
     due_date |-> t.due_date, priority |-> t.priority,
     completion_date |-> t.completion_date]

\* the orders ORDER BY due_date may give the rows of S (ties in any order)
OrderByDueDate(S) ==
    {f \in [1..Cardinality(S) -> S] :
        /\ \A i, j \in 1..Cardinality(S) : i # j => f[i] # f[j]
        /\ \A i \in 1..(Cardinality(S) - 1) :
              ~SqlLess(f[i + 1].due_date, f[i].due_date)}

\* TaskDB.get_tasks: the lists the call may return
get_tasks(user_id, status) ==
    {[i \in 1..Cardinality(SelectTasks(user_id, status)) |-> TaskDict(f[i])] :
        f \in OrderByDueDate(SelectTasks(user_id, status))}

\* complete_task with completion_date left out of the SET clause
complete_task_status_only(user_id, task_id) ==
    [tasks |-> {IF t.id = task_id /\ t.user_id = user_id
                THEN [t EXCEPT !.status = "completed"]
                ELSE t : t \in tasks},
     val |-> TRUE]

\* complete_task as a toggle: a completed task is made active again
complete_task_toggle(user_id, task_id) ==
    [tasks |-> {IF t.id = task_id /\ t.user_id = user_id
                THEN IF t.status = "active"
                     THEN [t EXCEPT !.status = "completed",
                                    !.completion_date = strftime_datetime(DateTime(now))]
                     ELSE [t EXCEPT !.status = "active", !.completion_date = NullText]
                ELSE t : t \in tasks},
     val |-> TRUE]

\* complete_task with id=? left out of the WHERE clause
complete_task_all_of_user(user_id, task_id) ==
    [tasks |-> {IF t.user_id = user_id
                THEN [t EXCEPT !.status = "completed",
                               !.completion_date = strftime_datetime(DateTime(now))]
                ELSE t : t \in tasks},
     val |-> TRUE]

\* TaskDB.complete_task: UPDATE tasks SET status='completed', completion_date=?
\* WHERE id=? AND user_id=?; returns True whatever the number of rows updated
complete_task(user_id, task_id) ==
    [tasks |-> {IF t.id = task_id /\ t.user_id = user_id
                THEN [t EXCEPT !.status = "completed",
                               !.completion_date = strftime_datetime(DateTime(now))]
                ELSE t : t \in tasks},
     val |-> TRUE]

\* delete_task with user_id=? left out of the WHERE clause
delete_task_any_user(user_id, task_id) ==
    [tasks |-> {t \in tasks : t.id # task_id}, val |-> TRUE]

\* TaskDB.delete_task: DELETE FROM tasks WHERE id=? AND user_id=?
delete_task(user_id, task_id) ==
    [tasks |-> {t \in tasks : ~(t.id = task_id /\ t.user_id = user_id)},
     val |-> TRUE]

----------------------------------------------------------------------------
(* The model's reply and parse_task *)

\* A reply text is a sequence of tokens [k, j]: a fence (three backticks), the
\* language tag json, white space, a single backtick, prose that is no JSON, or
\* the well-formed JSON text of the value j.
JNothing == [t |-> "none", v |-> <<>>]
Tok(k) == [k |-> k, j |-> JNothing]
JsonText(j) == [k |-> "value", j |-> j]
\* a JSON object with the members d, and a JSON array
JObject(d) == [t |-> "obj", v |-> d]
JArray == [t |-> "arr", v |-> <<>>]

Tomorrow == <<"t", "o", "m", "o", "r", "r", "o", "w">>
RequiredFields == {"task", "customer", "due_date", "priority"}

\* str.strip(chars): drops the leading and trailing tokens whose kind is in kinds
RECURSIVE lstrip(_, _)
lstrip(s, kinds) ==
    IF s # <<>> /\ Head(s).k \in kinds THEN lstrip(Tail(s), kinds) ELSE s

RECURSIVE rstrip(_, _)
rstrip(s, kinds) ==
    IF s # <<>> /\ s[Len(s)].k \in kinds
    THEN rstrip(SubSeq(s, 1, Len(s) - 1), kinds) ELSE s

strip(s, kinds) == rstrip(lstrip(s, kinds), kinds)

\* positions of the fences of s
Fences(s) == {i \in 1..Len(s) : s[i].k = "fence"}

\* s.split("```")[1]: what lies between the first fence and the next one (or the end)
SplitFence1(s) ==
    LET first == CHOOSE i \in Fences(s) : \A q \in Fences(s) : i <= q
        later == {i \in Fences(s) : i > first}
        stop  == IF later = {} THEN Len(s) + 1
                 ELSE CHOOSE i \in later : \A q \in later : i <= q
    IN  SubSeq(s, first + 1, stop - 1)

\* json.loads: the text must be one JSON value, white space around it allowed
json_loads(s) ==
    LET body == strip(s, {"ws"})
    IN  IF Len(body) = 1 /\ body[1].k = "value" THEN {body[1].j} ELSE None

\* query_gemini: None when the endpoint raises or the response has no text
query_gemini(reply) ==
    IF ~reply.ok THEN [val |-> None, err |-> "EndpointUnavailable"]
    ELSE IF reply.text = <<>> THEN [val |-> None, err |-> "EmptyResponse"]
    ELSE [val |-> {reply.text}, err |-> ""]

\* parse_task lines 99-112: strip, take the fenced block, drop the tag and backticks
Unwrap(text) ==
    LET stripped == strip(text, {"ws"})
        block == IF Fences(stripped) # {}
                 THEN LET seg == SplitFence1(stripped)
                      IN  IF seg # <<>> /\ Head(seg).k = "tag" THEN Tail(seg) ELSE seg
                 ELSE stripped
    IN  strip(strip(block, {"tick", "fence"}), {"ws"})

\* Normalize that compares due_date with 'tomorrow' without lower()
Normalize_case_sensitive(parsed, t) ==
    IF parsed.t # "obj" THEN [val |-> None, err |-> "Error"]
    ELSE LET d == parsed.v
             due == IF "due_date" \in DOMAIN d THEN d["due_date"] ELSE PyStr(<<>>)
         IN  IF due.t # "str" THEN [val |-> None, err |-> "Error"]
             ELSE LET fixed ==
                          IF due.v = Tomorrow
                          THEN [d EXCEPT !["due_date"] =
                                   PyStr(strftime_date(DateTime(t + MinutesPerDay)))]
                          ELSE d
                  IN  IF RequiredFields \ DOMAIN fixed # {}
                      THEN [val |-> None, err |-> "IncompleteRecord"]
                      ELSE [val |-> {fixed}, err |-> ""]

\* Normalize that skips the validation of the required fields
Normalize_unvalidated(parsed, t) ==
    IF parsed.t # "obj" THEN [val |-> None, err |-> "Error"]
    ELSE LET d == parsed.v
             due == IF "due_date" \in DOMAIN d THEN d["due_date"] ELSE PyStr(<<>>)
         IN  IF due.t # "str" THEN [val |-> None, err |-> "Error"]
             ELSE [val |-> {IF lower(due.v) = Tomorrow
                            THEN [d EXCEPT !["due_date"] =
                                     PyStr(strftime_date(DateTime(t + MinutesPerDay)))]
                            ELSE d},
                   err |-> ""]

\* parse_task lines 117-128 on the parsed value, at clock value t
Normalize(parsed, t) ==
    IF parsed.t # "obj" THEN [val |-> None, err |-> "Error"]
    ELSE LET d == parsed.v
             due == IF "due_date" \in DOMAIN d THEN d["due_date"] ELSE PyStr(<<>>)
         IN  IF due.t # "str" THEN [val |-> None, err |-> "Error"]
             ELSE LET fixed ==
                          IF lower(due.v) = Tomorrow
                          THEN [d EXCEPT !["due_date"] =
                                   PyStr(strftime_date(DateTime(t + MinutesPerDay)))]
                          ELSE d
                  IN  IF RequiredFields \ DOMAIN fixed # {}
                      THEN [val |-> None, err |-> "IncompleteRecord"]
                      ELSE [val |-> {fixed}, err |-> ""]

\* parse_task(note) when the model answers reply at clock value t:
\* val is the dict returned (None on failure), err the failure shown
parse_task(reply, t) ==
    LET response == query_gemini(reply)
    IN  IF response.val = None THEN response
        ELSE LET text == CHOOSE x \in response.val : TRUE
                 loaded == json_loads(Unwrap(text))
             IN  IF loaded = None THEN [val |-> None, err |-> "MalformedResponse"]
                 ELSE Normalize(CHOOSE j \in loaded : TRUE, t)

\* main lines 179-190: parse the note's reply and, if a dict came back, save it
\* for the logged-in user
add_task(user_id, reply) ==
    LET parsed == parse_task(reply, now)
    IN  IF parsed.val = None
        THEN [tasks |-> tasks, task_seq |-> task_seq,
              val |-> [err |-> parsed.err, saved |-> FALSE]]
        ELSE LET saved == save_task(user_id, CHOOSE d \in parsed.val : TRUE)
             IN  [tasks |-> saved.tasks, task_seq |-> saved.task_seq,
                  val |-> [err |-> IF saved.val THEN "" ELSE "StorageError",
                           saved |-> saved.val]]

----------------------------------------------------------------------------
(* Inputs *)

\* what the model may put in each member of its JSON object (None: member absent)
MemberOptions ==
    [task     |-> {None, {PyStr("Send project report")}, {PyNone("")}},
     customer |-> {None, {PyStr("John")}},
     due_date |-> {None,
                   {PyStr(<<"1", "4", "-", "1", "1", "-", "2", "0", "2", "4">>)},
                   {PyStr(Tomorrow)},
                   {PyStr(<<"T", "o", "m", "o", "r", "r", "o", "w">>)},
                   {PyNone(<<>>)}},
     priority |-> {None, {PyStr("High")}, {PyStr("Urgent")}}]

\* the dict with the members that are present in o
MkDict(o) ==
    [f \in {g \in RequiredFields : o[g] # None} |-> CHOOSE x \in o[f] : TRUE]

JsonObjects ==
    {JObject(MkDict([task |-> a, customer |-> b, due_date |-> c, priority |-> d])) :
        a \in MemberOptions.task, b \in MemberOptions.customer,
        c \in MemberOptions.due_date, d \in MemberOptions.priority}

\* the payload of a reply: a JSON object, another JSON value, or broken JSON
Payloads ==
    {JsonText(j) : j \in JsonObjects \cup {JArray}} \cup {Tok("text")}

\* the ways the model wraps its payload
Wrappings(p) ==
    { <<p>>,
      <<Tok("fence"), Tok("tag"), Tok("ws"), p, Tok("ws"), Tok("fence"), Tok("ws")>>,
      <<Tok("text"), Tok("ws"), Tok("fence"), Tok("ws"), p, Tok("tick"),
        Tok("ws"), Tok("fence"), Tok("ws"), Tok("text")>>,
      <<Tok("text"), Tok("ws"), p>> }

\* the outcomes of one call of the endpoint
Replies ==
    {[ok |-> FALSE, text |-> <<>>], [ok |-> TRUE, text |-> <<>>]}
    \cup {[ok |-> TRUE, text |-> w] : w \in UNION {Wrappings(p) : p \in Payloads}}

\* the due_date texts parse_task is given when it is called directly
DueDateTexts ==
    {<<"1", "4", "-", "1", "1", "-", "2", "0", "2", "4">>,
     <<"t", "o", "m", "o", "r", "r", "o", "w">>,
     <<"T", "o", "m", "o", "r", "r", "o", "w">>,
     <<"T", "O", "M", "O", "R", "R", "O", "W">>,
     <<"t", "O", "m", "O", "r", "R", "o", "W">>,
     <<"t", "o", "m", "o", "r", "r", "o", "w", " ">>,
     <<" ", "T", "o", "m", "o", "r", "r", "o", "w">>,
     <<"t", "o", "m", "o", "r", "r", "o">>}

\* the JSON objects of those replies: any member may be absent, due_date and
\* priority may be null
ParseObjects ==
    {JObject(MkDict([task |-> a, customer |-> b, due_date |-> c, priority |-> d])) :
        a \in {None, {PyStr("Send project report")}},
        b \in {None, {PyStr("John")}},
        c \in {None, {PyNone(<<>>)}} \cup {{PyStr(x)} : x \in DueDateTexts},
        d \in {None, {PyStr("Medium")}, {PyNone("")}}}

\* the outcomes of the endpoint's call when parse_task is called directly
ParseReplies ==
    {[ok |-> FALSE, text |-> <<>>], [ok |-> TRUE, text |-> <<>>]}
    \cup {[ok |-> TRUE, text |-> w] :
             w \in UNION {Wrappings(JsonText(j)) : j \in ParseObjects \cup {JArray}}}

\* the task records the store's save_task is called with directly
TaskRecords ==
    {[task |-> PyStr("Send project report"), customer |-> PyStr("John"),
      due_date |-> PyStr(d), priority |-> PyStr("Medium")] :
        d \in {<<"1", "4", "-", "1", "1", "-", "2", "0", "2", "4">>,
               <<"0", "5", "-", "1", "2", "-", "2", "0", "2", "4">>}}
    \cup {[task |-> PyNone(""), customer |-> PyStr("John"),
           due_date |-> PyStr(<<"1", "4", "-", "1", "1", "-", "2", "0", "2", "4">>),
           priority |-> PyStr("Medium")]}

----------------------------------------------------------------------------
(* Actions.  A call's result is bound once, as the only element of a set. *)

NoSession == [authenticated |-> FALSE, user |-> None]

Init ==
    /\ users = {}
    /\ tasks = {}
    /\ task_seq = 0
    /\ session = NoSession
    /\ now = 0
    /\ ret = [op |-> "init", args |-> <<>>, val |-> TRUE]

\* TaskDB.register_user(email, password)
RegisterUser(email, password) ==
    \E r \in {register_user(email, password)} :
        /\ users' = r.users
        /\ ret' = [op |-> "register_user", args |-> <<email, password>>, val |-> r.val]
        /\ UNCHANGED <<tasks, task_seq, session, now>>

\* Auth.login_page: shown while not authenticated; verify_user, then the session
Login(email, password) ==
    \E user \in {verify_user(email, password)} :
        /\ ~session.authenticated
        /\ session' = IF user # None
                      THEN [authenticated |-> TRUE, user |-> user]
                      ELSE session
        /\ ret' = [op |-> "verify_user", args |-> <<email, password>>, val |-> user]
        /\ UNCHANGED <<users, tasks, task_seq, now>>

\* the Logout button: st.session_state.clear(), then init_session_state
Logout ==
    /\ session.authenticated
    /\ session' = NoSession
    /\ UNCHANGED <<users, tasks, task_seq, now, ret>>

\* main: the Add Task form, submitted with a note by the logged-in user
AddTask(reply) ==
    /\ session.authenticated
    /\ \E r \in {add_task((CHOOSE u \in session.user : TRUE).id, reply)} :
           /\ r.val.saved => task_seq < MaxAdds
           /\ tasks' = r.tasks
           /\ task_seq' = r.task_seq
           /\ ret' = [op |-> "add_task", args |-> <<>>, val |-> r.val]
    /\ UNCHANGED <<users, session, now>>

\* TaskDB.save_task(user_id, task_data)
SaveTask(user_id, task_data) ==
    \E r \in {save_task(user_id, task_data)} :
        /\ r.val => task_seq < MaxTasks
        /\ tasks' = r.tasks
        /\ task_seq' = r.task_seq
        /\ ret' = [op |-> "save_task", args |-> <<user_id, task_data>>, val |-> r.val]
        /\ UNCHANGED <<users, session, now>>

\* TaskDB.get_tasks(user_id, status)
GetTasks(user_id, status) ==
    /\ \E result \in get_tasks(user_id, status) :
          ret' = [op |-> "get_tasks", args |-> <<user_id, status>>, val |-> result]
    /\ UNCHANGED <<users, tasks, task_seq, session, now>>

\* TaskDB.complete_task(user_id, task_id)
CompleteTask(user_id, task_id) ==
    \E r \in {complete_task(user_id, task_id)} :
        /\ tasks' = r.tasks
        /\ ret' = [op |-> "complete_task", args |-> <<user_id, task_id>>, val |-> r.val]
        /\ UNCHANGED <<users, task_seq, session, now>>

\* TaskDB.delete_task(user_id, task_id)
DeleteTask(user_id, task_id) ==
    \E r \in {delete_task(user_id, task_id)} :
        /\ tasks' = r.tasks
        /\ ret' = [op |-> "delete_task", args |-> <<user_id, task_id>>, val |-> r.val]
        /\ UNCHANGED <<users, task_seq, session, now>>

\* parse_task(note), the endpoint answering reply
ParseTask(reply) ==
    /\ ret' = [op |-> "parse_task", args |-> <<reply, now>>,
               val |-> parse_task(reply, now)]
    /\ UNCHANGED <<users, tasks, task_seq, session, now>>

\* time passes
Tick ==
    /\ now < MaxTicks * ClockStep
    /\ now' = now + ClockStep
    /\ UNCHANGED <<users, tasks, task_seq, session, ret>>

----------------------------------------------------------------------------
(* Specifications *)

Register == \E e \in Emails, p \in Passwords : RegisterUser(e, p)
LogIn == \E e \in Emails, p \in Passwords : Login(e, p)
Add == \E reply \in Replies : AddTask(reply)
Save == \E u \in UserIds, d \in TaskRecords : SaveTask(u, d)
List == \E u \in UserIds, s \in Statuses : GetTasks(u, s)
Complete == \E u \in UserIds, t \in TaskIds : CompleteTask(u, t)
Delete == \E u \in UserIds, t \in TaskIds : DeleteTask(u, t)

\* the whole program
Next == Register \/ LogIn \/ Logout \/ Add \/ Save \/ List \/ Complete \/ Delete \/ Tick
Spec == Init /\ [][Next]_vars

\* the credential store and the session
NextAuth == Register \/ LogIn \/ Logout
SpecAuth == Init /\ [][NextAuth]_vars

\* the task store, called directly
NextStore == Save \/ List \/ Complete \/ Delete \/ Tick
SpecStore == Init /\ [][NextStore]_vars

\* extraction, called directly
Parse == \E reply \in ParseReplies : ParseTask(reply)
NextParse == Parse \/ Tick
SpecParse == Init /\ [][NextParse]_vars

\* the application: registration, login and the add-task flow
AppEmail == "ann@x.org"
RegisterApp == \E p \in Passwords : RegisterUser(AppEmail, p)
LogInApp == \E p \in Passwords : Login(AppEmail, p)
NextApp == RegisterApp \/ LogInApp \/ Logout \/ Add \/ Tick
SpecApp == Init /\ [][NextApp]_vars

----------------------------------------------------------------------------
(* Properties of the task store (SpecStore) *)

\* the step just taken is the call op(args)
Called(op, args) == ret'.op = op /\ ret'.args = args

\* task_id names a stored task of user_id
Owned(user_id, task_id) ==
    \E r \in tasks : r.id = task_id /\ r.user_id = user_id

\* the ids in a list get_tasks returned
ListedIds(list) == {list[i].id : i \in DOMAIN list}

\* C1: complete(user_id, task_id) returns failure and leaves every stored task
\* unmodified whenever task_id does not exist or names a task of another user.
C1_CompleteForeignFails ==
    [][\A u \in UserIds, t \in TaskIds :
          (Called("complete_task", <<u, t>>) /\ CompleteTask(u, t) /\ ~Owned(u, t))
              => (ret'.val = FALSE /\ tasks' = tasks)]_vars

\* C2: the list get_tasks(u, status) returns holds only tasks owned by u, and a
\* complete or delete call made with user u never changes or removes a task
\* owned by another user.
C2_CrossUserIsolation ==
    [][/\ ret'.op = "get_tasks" =>
             \A id \in ListedIds(ret'.val) :
                 \E r \in tasks' : r.id = id /\ r.user_id = ret'.args[1]
       /\ \A u \in UserIds, t \in TaskIds :
             \/ Called("complete_task", <<u, t>>) /\ CompleteTask(u, t)
             \/ Called("delete_task", <<u, t>>) /\ DeleteTask(u, t)
             => \A r \in tasks : r.user_id # u => r \in tasks']_vars

\* a complete or delete call was made on an active task of another user, and the
\* task is still stored, active
C2_Witness ==
    /\ ret.op \in {"complete_task", "delete_task"}
    /\ \E r \in tasks :
          /\ r.id = ret.args[2]
          /\ r.user_id # ret.args[1]
          /\ r.status = "active"

\* C3: once a task is Completed, no later operation, a repeated complete call by
\* its owner included, changes its completion_date.
C3_CompletionDateSetOnce ==
    [][\A r \in tasks : r.status = "completed" =>
          \A q \in tasks' : q.id = r.id => q.completion_date = r.completion_date]_vars

\* C4: every stored task has a completion_date if and only if its status is
\* completed.
C4_CompletionDateIffCompleted ==
    \A t \in tasks : (t.completion_date # NullText) <=> (t.status = "completed")

\* the store holds a completed task and an active one
C4_Witness ==
    /\ \E t \in tasks : t.status = "completed" /\ t.completion_date # NullText
    /\ \E t \in tasks : t.status = "active"

\* C5: the only status change of a stored task is active to completed, a
\* completed task never becomes active again, the other columns of a stored task
\* never change, and a new row gets an id that no earlier row had.
C5_OneWayLifecycle ==
    [][/\ \A r \in tasks : \A q \in tasks' : q.id = r.id =>
              /\ q.user_id = r.user_id
              /\ q.task = r.task
              /\ q.customer = r.customer
              /\ q.due_date = r.due_date
              /\ q.priority = r.priority
              /\ q.status # r.status =>
                    r.status = "active" /\ q.status = "completed"
              /\ r.status = "completed" => q.status = "completed"
       /\ \A q \in tasks' : (\A r \in tasks : r.id # q.id) =>
              q.id > task_seq /\ q.status = "active"
       /\ task_seq' >= task_seq]_vars

\* a task was saved after an earlier task had been completed, which still is
C5_Witness ==
    /\ ret.op = "save_task"
    /\ ret.val = TRUE
    /\ \E r \in tasks : r.status = "completed" /\ r.id < task_seq

\* C10: complete(user_id, task_id) on an active task of user_id succeeds; after it
\* the task is completed with its completion_date set, is in no list of the
\* user's active tasks and in every list of the user's completed tasks, and no
\* other task has changed.
C10_CompleteActiveTask ==
    [][\A u \in UserIds, t \in TaskIds :
          (/\ Called("complete_task", <<u, t>>)
           /\ CompleteTask(u, t)
           /\ \E r \in tasks : r.id = t /\ r.user_id = u /\ r.status = "active")
          => /\ ret'.val = TRUE
             /\ \E q \in tasks' :
                   /\ q.id = t
                   /\ q.status = "completed"
                   /\ q.completion_date = strftime_datetime(DateTime(now))
                   /\ q.completion_date # NullText
             /\ \A list \in get_tasks(u, "active")' : t \notin ListedIds(list)
             /\ \A list \in get_tasks(u, "completed")' : t \in ListedIds(list)
             /\ \A r \in tasks : r.id # t => r \in tasks'
             /\ {q.id : q \in tasks'} = {r.id : r \in tasks}]_vars

\* the owner has completed a task while another task of the same owner stays
\* active
C10_Witness ==
    /\ ret.op = "complete_task"
    /\ ret.val = TRUE
    /\ \E r \in tasks :
          /\ r.id = ret.args[2]
          /\ r.user_id = ret.args[1]
          /\ r.status = "completed"
    /\ \E r \in tasks :
          /\ r.id # ret.args[2]
          /\ r.user_id = ret.args[1]
          /\ r.status = "active"

\* the dict d of a returned list carries the members of task_data, as Python
\* values, and no completion date
Carries(d, task_data) ==
    /\ SqlFetch(d.task, NULL, "") = task_data["task"]
    /\ SqlFetch(d.customer, NULL, "") = task_data["customer"]
    /\ SqlFetch(d.due_date, NullText, <<>>) = task_data["due_date"]
    /\ SqlFetch(d.priority, NULL, "") = task_data["priority"]
    /\ SqlFetch(d.completion_date, NullText, <<>>) = PyNone(<<>>)

\* C11: round trip: right after a successful save_task(user_id, task_data),
\* every list get_tasks(user_id, active) may return includes the new task,
\* carrying the given task, customer, due_date and priority, stored with status
\* active and a null completion_date, and no list get_tasks(user_id, completed)
\* may return includes it.
C11_SaveThenList ==
    (ret.op = "save_task" /\ ret.val = TRUE) =>
        /\ \A list \in get_tasks(ret.args[1], "active") :
              \E i \in DOMAIN list :
                  /\ list[i].id = task_seq
                  /\ Carries(list[i], ret.args[2])
        /\ \A list \in get_tasks(ret.args[1], "completed") :
              task_seq \notin ListedIds(list)
        /\ \E r \in tasks :
              /\ r.id = task_seq
              /\ r.user_id = ret.args[1]
              /\ r.status = "active"
              /\ r.completion_date = NullText

\* a task was saved for a user who has a completed task, and is the user's only
\* active task
C11_Witness ==
    /\ ret.op = "save_task"
    /\ ret.val = TRUE
    /\ \E r \in tasks : r.user_id = ret.args[1] /\ r.status = "completed"
    /\ \E list \in get_tasks(ret.args[1], "active") : Len(list) = 1

----------------------------------------------------------------------------
(* Properties of the credential store (SpecAuth) *)

\* email is the email of a users row
Registered(email) == \E r \in users : r.email = email

UniqueEmails ==
    \A r, q \in users : (r.email = q.email \/ r.id = q.id) => r = q

\* C6: register(email, password) with an email already in the user store fails
\* and leaves the user store unchanged, so no two users ever share an email.
C6_DuplicateEmailRejected ==
    /\ UniqueEmails
    /\ [][/\ UniqueEmails'
          /\ \A e \in Emails, p \in Passwords :
                (Called("register_user", <<e, p>>) /\ RegisterUser(e, p)
                    /\ Registered(e))
                => (ret'.val = FALSE /\ users' = users)]_vars

\* a registration with a stored email and another password was refused, and the
\* row still holds the digest of the first password
C6_Witness ==
    /\ ret.op = "register_user"
    /\ ret.val = FALSE
    /\ \E r \in users :
          /\ r.email = ret.args[1]
          /\ r.password # hash_password(ret.args[2])
          /\ r.password \in {hash_password(p) : p \in Passwords}

\* C7: after any sequence of register calls, verify(email, password) returns the
\* id and email of the user registered under email when password is the one it
\* was registered with, and nothing otherwise, for an unknown email as for a
\* wrong password.  Stated step by step: a successful registration makes verify
\* return the new row's identity for its password and nothing for any other
\* password; what verify returns for a registered email never changes afterwards;
\* verify returns nothing for an email that is not registered.
C7_VerifyAfterRegister ==
    /\ \A e \in Emails, p \in Passwords : verify_user(e, p) = None
    /\ [][\A e \in Emails, p \in Passwords :
            /\ (Called("register_user", <<e, p>>) /\ RegisterUser(e, p)
                   /\ ret'.val = TRUE)
               => /\ \E r \in users' \ users :
                        verify_user(e, p)' = {[id |-> r.id, email |-> e]}
                  /\ \A q \in Passwords \ {p} : verify_user(e, q)' = None
            /\ Registered(e) => verify_user(e, p)' = verify_user(e, p)
            /\ ~Registered(e)' => verify_user(e, p)' = None]_vars

\* the second registered user has logged in with the password registered, and
\* verify returns nothing for that email with the other password
C7_Witness ==
    /\ ret.op = "verify_user"
    /\ ret.val = {[id |-> 2, email |-> ret.args[1]]}
    /\ session = [authenticated |-> TRUE, user |-> ret.val]
    /\ \E q \in Passwords : verify_user(ret.args[1], q) = None

----------------------------------------------------------------------------
(* Properties of the add-task flow (SpecApp) *)

\* the JSON values a reply text holds
JsonValues(reply) ==
    {reply.text[i].j : i \in {n \in DOMAIN reply.text : reply.text[n].k = "value"}}

\* the ways extraction must fail, read off the reply itself
Unavailable(reply) == ~reply.ok
EmptyResponse(reply) == reply.ok /\ reply.text = <<>>
NoJson(reply) == reply.ok /\ reply.text # <<>> /\ JsonValues(reply) = {}
IncompleteObject(reply) ==
    reply.ok /\ \E j \in JsonValues(reply) :
        j.t = "obj" /\ RequiredFields \ DOMAIN j.v # {}
FailureReply(reply) ==
    Unavailable(reply) \/ EmptyResponse(reply) \/ NoJson(reply) \/ IncompleteObject(reply)

\* the reply is a bare JSON object that has task, customer and due_date, all
\* strings, and no priority
PriorityMissingOnly(reply) ==
    /\ reply.ok
    /\ Len(reply.text) = 1
    /\ reply.text[1].k = "value"
    /\ reply.text[1].j.t = "obj"
    /\ DOMAIN reply.text[1].j.v = RequiredFields \ {"priority"}
    /\ \A f \in DOMAIN reply.text[1].j.v : reply.text[1].j.v[f].t = "str"

\* C8: no partial task is ever persisted: when extraction of a note fails
\* (endpoint unavailable, empty response, malformed response, a record missing
\* task, customer, due_date or priority; a missing priority gives
\* IncompleteRecord), the add-task flow writes nothing to the task store.
\* In every state, whatever reply the endpoint gives to the logged-in user's
\* next note: on a failure reply the flow saves nothing, and a flow that saves
\* nothing shows a failure and leaves the store as it is.
C8_NoPartialTask ==
    /\ session.authenticated =>
          \A reply \in Replies :
              \E r \in {add_task((CHOOSE u \in session.user : TRUE).id, reply)} :
                  /\ FailureReply(reply) => ~r.val.saved
                  /\ Unavailable(reply) => r.val.err = "EndpointUnavailable"
                  /\ EmptyResponse(reply) => r.val.err = "EmptyResponse"
                  /\ NoJson(reply) => r.val.err = "MalformedResponse"
                  /\ PriorityMissingOnly(reply) => r.val.err = "IncompleteRecord"
                  /\ ~r.val.saved =>
                        /\ r.tasks = tasks
                        /\ r.task_seq = task_seq
                        /\ r.val.err \in {"EndpointUnavailable", "EmptyResponse",
                                          "MalformedResponse", "IncompleteRecord",
                                          "Error", "StorageError"}
    /\ (ret.op = "add_task" /\ ~ret.val.saved) => ret.val.err # ""

\* the flow has refused a record with a missing member while the store holds a
\* task, on a later day than that task was added
C8_Witness ==
    /\ ret.op = "add_task"
    /\ ret.val = [err |-> "IncompleteRecord", saved |-> FALSE]
    /\ tasks # {}
    /\ now >= MinutesPerDay

\* C9: every task persisted in the task store has a priority in
\* {High, Medium, Low}, whatever text the model returns for the note.
C9_PriorityInEnum ==
    \A t \in tasks : t.priority \in {"High", "Medium", "Low"}

----------------------------------------------------------------------------
(* Properties of extraction (SpecParse) *)

\* s is the word tomorrow, each letter in either case
IsTomorrowWord(s) ==
    /\ Len(s) = Len(Tomorrow)
    /\ \A i \in 1..Len(s) :
          Ord[s[i]] \in {Ord[Tomorrow[i]], Ord[Tomorrow[i]] - 32}

\* s has the form DD-MM-YYYY
IsDateText(s) ==
    /\ Len(s) = 10
    /\ s[3] = "-" /\ s[6] = "-"
    /\ \A i \in {1, 2, 4, 5, 7, 8, 9, 10} : Ord[s[i]] \in 48..57

\* the records the reply's text parses to that have all four required fields
\* and a due_date that is a string
FullRecords(reply) ==
    IF ~reply.ok \/ reply.text = <<>> THEN {}
    ELSE {j.v : j \in {q \in json_loads(Unwrap(reply.text)) :
                          /\ q.t = "obj"
                          /\ RequiredFields \subseteq DOMAIN q.v
                          /\ q.v["due_date"].t = "str"}}

\* C12: when the parsed record has all four required fields and its due_date
\* is the word tomorrow in any letter case, parse_task returns the record with
\* due_date replaced by the date of the day after the moment of extraction, in
\* DD-MM-YYYY form and never the word itself, the other three fields unchanged;
\* a due_date that is any other string is returned unchanged.
C12_TomorrowNormalised ==
    ret.op = "parse_task" =>
        \A d \in FullRecords(ret.args[1]) :
            \E out \in ret.val.val :
                /\ ret.val.val = {out}
                /\ DOMAIN out = DOMAIN d
                /\ \A f \in DOMAIN d \ {"due_date"} : out[f] = d[f]
                /\ IF IsTomorrowWord(d["due_date"].v)
                   THEN /\ out["due_date"] =
                              PyStr(strftime_date(
                                  [date |-> NextDay(DateTime(ret.args[2]).date),
                                   hour |-> 0, minute |-> 0]))
                        /\ IsDateText(out["due_date"].v)
                        /\ ~IsTomorrowWord(out["due_date"].v)
                   ELSE out["due_date"] = d["due_date"]

\* a fenced reply with due_date tOmOrRoW was parsed on the last day of the
\* year, and the record came back with the first day of the next year
C12_Witness ==
    /\ ret.op = "parse_task"
    /\ ret.args[2] = ClockStep
    /\ Fences(ret.args[1].text) # {}
    /\ \E d \in FullRecords(ret.args[1]) :
          d["due_date"].v = <<"t", "O", "m", "O", "r", "R", "o", "W">>
    /\ \E out \in ret.val.val :
          out["due_date"].v = <<"0", "1", "-", "0", "1", "-", "2", "0", "2", "5">>

============================================================================
